---- MODULE Spec2Model ----
(***************************************************************************)
(* A model of react-native-twc (src/src/index.tsx, lines 1-390): the       *)
(* createTwc factory, the template binders it hands out (with their        *)
(* attrs / transientProps / withChildren modifiers and their component     *)
(* cache) and the render function of the wrapped components.               *)
(*                                                                         *)
(* JavaScript values are tagged records: the tag t is what typeof,         *)
(* Array.isArray and "== null" look at.  A property name is the tuple of   *)
(* its characters, so that prop[0] and startsWith are computed, not        *)
(* assumed.  A props object is a function from property names to values.   *)
(***************************************************************************)
EXTENDS Integers, Sequences, FiniteSets, TLC

VARIABLES
    twc,          \* the closure createTwc returned: compose, defaultShouldForwardProp
    templates,    \* every template binder created so far (createTemplate closures)
    origin,       \* history: how each binder was obtained (wrap or modifier, and from which)
    components,   \* every ForwardedComponent created so far; the index is its identity
    ret,          \* what the last template invocation returned
    element,      \* the element waiting to be rendered: a wrapped component and its props
    rendered,     \* the frames of the renders done for the current top-level element
    raised        \* the error the last render raised to its caller, None when it returned

vars == <<twc, templates, origin, components, ret, element, rendered, raised>>

-----------------------------------------------------------------------------
(* JavaScript values *)

Undef == [t |-> "undefined"]
Null == [t |-> "null"]
Str(s) == [t |-> "string", s |-> s]
Bool(b) == [t |-> "boolean", b |-> b]
Obj(o) == [t |-> "object", o |-> o]
Arr(a) == [t |-> "array", a |-> a]
\* a function value: its source text and the values it closes over
Fn(src, env) == [t |-> "function", src |-> src, env |-> env]
\* a React element made by a children renderer
Elem(type, children) == [t |-> "element", type |-> type, children |-> children]
\* the value a throw statement raises: new Error(message)
Error(message) == [t |-> "error", message |-> message]
None == [t |-> "none"]

EmptyMap == [k \in {} |-> Undef]

\* x == null
IsNullish(v) == v.t \in {"undefined", "null"}

\* typeof x === 'function'
IsFunction(v) == v.t = "function"

\* Boolean(x)
Truthy(v) ==
    CASE v.t \in {"undefined", "null"} -> FALSE
      [] v.t = "string" -> v.s # ""
      [] v.t = "boolean" -> v.b
      [] OTHER -> TRUE

\* obj.key: undefined when the key is absent
Get(m, k) == IF k \in DOMAIN m THEN m[k] ELSE Undef

\* { ...a, ...b }
Spread(a, b) == [k \in (DOMAIN a) \cup (DOMAIN b) |-> IF k \in DOMAIN b THEN b[k] ELSE a[k]]

\* the own enumerable properties "...v" copies: those of a plain object, none of
\* null, undefined, a boolean or a number
SpreadOf(v) == IF v.t = "object" THEN v.o ELSE [k \in {} |-> 0]

\* const { a, b, ...rest } = m
Without(m, ks) == [k \in (DOMAIN m) \ ks |-> m[k]]

-----------------------------------------------------------------------------
(* Property names *)

K_className == <<"c", "l", "a", "s", "s", "N", "a", "m", "e">>
K_children == <<"c", "h", "i", "l", "d", "r", "e", "n">>
K_style == <<"s", "t", "y", "l", "e">>
K_size == <<"s", "i", "z", "e">>
K_sized == <<"s", "i", "z", "e", "d">>
K_placeholder == <<"p", "l", "a", "c", "e", "h", "o", "l", "d", "e", "r">>
K_label == <<"a", "r", "i", "a", "-", "l", "a", "b", "e", "l">>
K_active == <<"$", "a", "c", "t", "i", "v", "e">>
K_padded == <<"$", "p", "a", "d", "d", "e", "d">>
K_variant == <<"_", "v", "a", "r", "i", "a", "n", "t">>

\* prop.startsWith(prefix)
StartsWith(prop, prefix) ==
    /\ Len(prop) >= Len(prefix)
    /\ SubSeq(prop, 1, Len(prefix)) = prefix

\* array.includes(x)
Includes(array, x) == \E i \in 1..Len(array) : array[i] = x

-----------------------------------------------------------------------------
(* filterProps, flattenStyle, mergeStyles, mergePropsWithAttrs *)

\* the functions callers hand in as forwarding predicates, by source text
CallPredicate(fn, prop) ==
    CASE fn.src = "(prop) => !prop.startsWith('_')" -> ~StartsWith(prop, <<"_">>)
      [] fn.src = "(prop) => prop === 'size'" -> prop = K_size
      [] fn.src = "(prop) => prop.startsWith('s')" -> StartsWith(prop, <<"s">>)
      \* what the failing predicate returns when it returns
      [] fn.src = "(prop) => { if (prop === 'size') throw new Error('predicate'); return true }"
            -> TRUE

\* shouldForwardProp(prop) for the closures createTwc and transientProps build
ShouldForward(pred, prop) ==
    CASE pred.kind = "default" -> (Len(prop) = 0 \/ prop[1] # "$")
      [] pred.kind = "config" -> CallPredicate(pred.fn, prop)
      [] pred.kind = "notFn" -> ~CallPredicate(pred.fn, prop)
      [] pred.kind = "notIncludes" -> ~Includes(pred.list, prop)

\* filterProps that copies every key without asking the predicate
filterPropsAll(props, shouldForwardProp) == props

filterProps(props, shouldForwardProp) ==
    [prop \in {k \in DOMAIN props : ShouldForward(shouldForwardProp, k)} |-> props[prop]]

\* flattenStyle that spreads the entries of an array without flattening them first
flattenStyleShallow(style) ==
    IF IsNullish(style) THEN Obj([k \in {} |-> 0])
    ELSE IF style.t = "array" THEN
        LET RECURSIVE reduce(_, _)
            reduce(acc, i) ==
                IF i > Len(style.a) THEN acc
                ELSE reduce(Spread(acc, SpreadOf(style.a[i])), i + 1)
        IN  Obj(reduce([k \in {} |-> 0], 1))
    ELSE style

RECURSIVE flattenStyle(_)
flattenStyle(style) ==
    IF IsNullish(style) THEN Obj([k \in {} |-> 0])
    ELSE IF style.t = "array" THEN
        LET RECURSIVE reduce(_, _)
            reduce(acc, i) ==
                IF i > Len(style.a) THEN acc
                ELSE reduce(Spread(acc, SpreadOf(flattenStyle(style.a[i]))), i + 1)
        IN  Obj(reduce([k \in {} |-> 0], 1))
    ELSE style

mergeStyles(baseStyle, overrideStyle) ==
    IF IsNullish(baseStyle) THEN overrideStyle
    ELSE IF IsNullish(overrideStyle) THEN baseStyle
    ELSE Obj(Spread(SpreadOf(flattenStyle(baseStyle)), SpreadOf(flattenStyle(overrideStyle))))

\* mergePropsWithAttrs without the special case for style
mergePropsNoStyle(attrs, props) == Spread(attrs, props)

\* mergePropsWithAttrs with the spread the other way round: attrs win
mergePropsAttrsWin(attrs, props) ==
    LET merged == Spread(props, attrs) IN
    IF ~IsNullish(Get(attrs, K_style)) /\ ~IsNullish(Get(props, K_style))
    THEN [merged EXCEPT ![K_style] = mergeStyles(attrs[K_style], props[K_style])]
    ELSE merged

mergePropsWithAttrs(attrs, props) ==
    LET merged == Spread(attrs, props) IN
    IF ~IsNullish(Get(attrs, K_style)) /\ ~IsNullish(Get(props, K_style))
    THEN [merged EXCEPT ![K_style] = mergeStyles(attrs[K_style], props[K_style])]
    ELSE merged

-----------------------------------------------------------------------------
(* The assignments the helpers make: which object is written, under which key *)

\* filteredProps[prop] = props[prop]: filteredProps is an object filterProps creates
filterPropsWrites(props, shouldForwardProp) ==
    {[target |-> "filteredProps", key |-> k, value |-> props[k]] :
        k \in {k \in DOMAIN props : ShouldForward(shouldForwardProp, k)}}

\* the keys mergeStyles writes when it builds a style: they go into the object literal
\* { ...flattenStyle(baseStyle), ...flattenStyle(overrideStyle) }, a new object
mergeStylesWrites(baseStyle, overrideStyle) ==
    IF IsNullish(baseStyle) \/ IsNullish(overrideStyle) THEN {}
    ELSE {[target |-> "mergedStyle", key |-> k] :
            k \in DOMAIN mergeStyles(baseStyle, overrideStyle).o}

\* a merge written as Object.assign(attrs, props): the attrs object takes the props
mergePropsWithAttrsWritesInPlace(attrs, props) ==
    {[target |-> "attrs", key |-> k,
      value |-> IF k = K_style /\ ~IsNullish(Get(attrs, K_style)) /\ ~IsNullish(props[k])
                THEN mergeStyles(attrs[K_style], props[K_style])
                ELSE props[k]] : k \in DOMAIN props}

\* merged.style = mergeStyles(...): merged is the object { ...attrs, ...props } that
\* mergePropsWithAttrs creates
mergePropsWithAttrsWrites(attrs, props) ==
    IF ~IsNullish(Get(attrs, K_style)) /\ ~IsNullish(Get(props, K_style))
    THEN {[target |-> "merged", key |-> K_style,
           value |-> mergeStyles(attrs[K_style], props[K_style])]}
    ELSE {}

\* the content of the object called name, which was m, after the writes
AfterWrites(name, m, writes) ==
    LET mine == {w \in writes : w.target = name} IN
    [k \in (DOMAIN m) \cup {w.key : w \in mine} |->
        IF \E w \in mine : w.key = k
        THEN (CHOOSE w \in mine : w.key = k).value
        ELSE m[k]]

-----------------------------------------------------------------------------
(* Class names: String(), String.raw, clsx and the compose functions *)

\* a class mapping such as { 'bg-blue-500': props.$active }: its entries in insertion order
ClassMap(e) == [t |-> "classmap", e |-> e]

RECURSIVE JoinWith(_, _)
\* strs.join(sep)
JoinWith(strs, sep) ==
    IF Len(strs) = 0 THEN ""
    ELSE IF Len(strs) = 1 THEN strs[1]
    ELSE strs[1] \o sep \o JoinWith(Tail(strs), sep)

RECURSIVE StringOf(_)
\* String(v)
StringOf(v) ==
    CASE v.t = "string" -> v.s
      [] v.t = "undefined" -> "undefined"
      [] v.t = "null" -> "null"
      [] v.t = "boolean" -> (IF v.b THEN "true" ELSE "false")
      [] v.t = "function" -> v.src
      [] v.t = "array" ->
            JoinWith([i \in 1..Len(v.a) |->
                        IF IsNullish(v.a[i]) THEN "" ELSE StringOf(v.a[i])], ",")
      [] OTHER -> "[object Object]"

\* String.raw that leaves the substitutions out
StringRawNoValues(strings, values) == JoinWith(strings, "")

RECURSIVE StringRaw(_, _)
\* String.raw({ raw: strings }, ...values)
StringRaw(strings, values) ==
    IF Len(strings) = 0 THEN ""
    ELSE IF Len(strings) = 1 THEN strings[1]
    ELSE strings[1] \o (IF Len(values) >= 1 THEN StringOf(values[1]) ELSE "")
            \o StringRaw(Tail(strings), IF Len(values) >= 1 THEN Tail(values) ELSE values)

\* the non-empty strings of a sequence, in order
NonEmpty(strs) == SelectSeq(strs, LAMBDA x : x # "")

RECURSIVE toVal(_)
\* clsx's toVal: the class string of one truthy input
toVal(mix) ==
    CASE mix.t = "string" -> mix.s
      [] mix.t = "array" ->
            JoinWith(NonEmpty([i \in 1..Len(mix.a) |->
                        IF Truthy(mix.a[i]) THEN toVal(mix.a[i]) ELSE ""]), " ")
      [] mix.t = "classmap" ->
            JoinWith(NonEmpty([i \in 1..Len(mix.e) |->
                        IF Truthy(mix.e[i][2]) THEN mix.e[i][1] ELSE ""]), " ")
      [] OTHER -> ""

\* clsx that drops an input equal to an earlier one
clsxDedup(inputs) ==
    JoinWith(NonEmpty([i \in 1..Len(inputs) |->
                IF Truthy(inputs[i]) /\ ~\E j \in 1..(i - 1) : inputs[j] = inputs[i]
                THEN toVal(inputs[i]) ELSE ""]), " ")

\* clsx(...inputs)
clsx(inputs) ==
    JoinWith(NonEmpty([i \in 1..Len(inputs) |->
                IF Truthy(inputs[i]) THEN toVal(inputs[i]) ELSE ""]), " ")

\* the test suite's custom compose: (...classes) => classes.filter(Boolean).join(" | ")
customCompose(inputs) ==
    JoinWith([i \in 1..Len(SelectSeq(inputs, Truthy)) |->
                StringOf(SelectSeq(inputs, Truthy)[i])], " | ")

ClsxFn == Fn("clsx", Undef)
CustomComposeFn == Fn("(...classes) => classes.filter(Boolean).join(' | ')", Undef)
\* a compose that fails
ThrowingComposeFn == Fn("() => { throw new Error('compose') }", Undef)

\* compose(a, b), compose being the function createTwc closed over
\* (an Error stands for the call raising it)
Compose(compose, a, b) ==
    IF compose.src = "clsx" THEN Str(clsx(<<a, b>>))
    ELSE IF compose = ThrowingComposeFn THEN Error("compose")
    ELSE Str(customCompose(<<a, b>>))

-----------------------------------------------------------------------------
(* The functions callers supply, by source text *)

\* class functions
ActiveClassFn == Fn("(props) => (props.$active ? 'bg-blue-500' : 'bg-gray-100')", Undef)
MapClassFn == Fn("(props) => ({ 'bg-blue-500 text-white': props.$active, 'p-2': true })", Undef)
PressedClassFn ==
    Fn("() => (renderProps) => (renderProps.pressed ? 'bg-blue-700' : 'bg-blue-500')", Undef)
\* a class function that reads a variable of its enclosing scope
BaseClassFn(base) == Fn("() => base", base)
\* a class function without free variables
ConstClassFn == Fn("() => 'p-2'", Undef)

\* the function PressedClassFn returns and a className prop of the same kind
PressedInner == Fn("(renderProps) => (renderProps.pressed ? 'bg-blue-700' : 'bg-blue-500')", Undef)
PressedClassName == Fn("(props) => (props.pressed ? 'scale-95' : '')", Undef)

\* stringsOrFn(p) for a class function
CallClassFn(fn, p) ==
    CASE fn = ActiveClassFn ->
            (IF Truthy(Get(p, K_active)) THEN Str("bg-blue-500") ELSE Str("bg-gray-100"))
      [] fn = MapClassFn ->
            ClassMap(<< <<"bg-blue-500 text-white", Get(p, K_active)>>, <<"p-2", Bool(TRUE)>> >>)
      [] fn = PressedClassFn -> PressedInner
      [] fn = ConstClassFn -> Str("p-2")
      [] OTHER -> fn.env

\* f(renderProps) for a function of the interaction state
CallWithState(fn, renderProps) ==
    CASE fn = PressedInner ->
            (IF renderProps.pressed THEN Str("bg-blue-700") ELSE Str("bg-blue-500"))
      [] fn = PressedClassName ->
            (IF renderProps.pressed THEN Str("scale-95") ELSE Str(""))

\* attrs functions
PaddedAttrsFn == Fn("(props) => ({ style: { padding: props.$padded ? 20 : 0 } })", Undef)
LabelAttrsFn ==
    Fn("(props) => ({ 'aria-label': props.$active ? 'on' : 'off', placeholder: 'Default' })", Undef)

\* attrs(p) for an attrs function
CallAttrsFn(fn, p) ==
    CASE fn = PaddedAttrsFn ->
            (K_style :> Obj("padding" :> (IF Truthy(Get(p, K_padded)) THEN 20 ELSE 0)))
      [] fn = LabelAttrsFn ->
            (K_label :> (IF Truthy(Get(p, K_active)) THEN Str("on") ELSE Str("off")))
                @@ (K_placeholder :> Str("Default"))

\* children renderers
TextRenderer == Fn("(children) => <Text>{children}</Text>", Undef)

\* childrenRenderer(children)
CallRenderer(fn, children) == Elem("Text", children)

\* forwarding predicates
NoUnderscoreFn == Fn("(prop) => !prop.startsWith('_')", Undef)
IsSizeFn == Fn("(prop) => prop === 'size'", Undef)
StartsWithSFn == Fn("(prop) => prop.startsWith('s')", Undef)

\* caller-supplied functions that fail: an attrs function, a forwarding predicate that
\* fails on one name, a class function and a children renderer
ThrowingAttrsFn == Fn("() => { throw new Error('attrs') }", Undef)
ThrowingPredicateFn ==
    Fn("(prop) => { if (prop === 'size') throw new Error('predicate'); return true }", Undef)
ThrowingClassFn == Fn("() => { throw new Error('class') }", Undef)
ThrowingRendererFn == Fn("() => { throw new Error('children') }", Undef)

\* the error the call fn(arg) raises, None when the call returns
Throws(fn, arg) ==
    CASE fn = ThrowingAttrsFn -> Error("attrs")
      [] fn = ThrowingPredicateFn -> (IF arg = K_size THEN Error("predicate") ELSE None)
      [] fn = ThrowingClassFn -> Error("class")
      [] fn = ThrowingComposeFn -> Error("compose")
      [] fn = ThrowingRendererFn -> Error("children")
      [] OTHER -> None

-----------------------------------------------------------------------------
(* createTwc, wrap, createTemplate and the modifiers *)

\* createTwc(config): compose and defaultShouldForwardProp
createTwc(config) ==
    [compose |-> IF Truthy(config.compose) THEN config.compose ELSE ClsxFn,
     defaultShouldForwardProp |->
        IF Truthy(config.shouldForwardProp)
        THEN [kind |-> "config", fn |-> config.shouldForwardProp]
        ELSE [kind |-> "default"]]

\* the base components wrap is given: host components (functions with a name and
\* possibly a displayName) and components this library produced earlier
Host(displayName, name) == [t |-> "host", displayName |-> displayName, name |-> name]
Wrapped(id) == [t |-> "twc", id |-> id]
View == Host(Undef, Str("View"))
\* a forwardRef component given a displayName, a named function that also has one, an
\* anonymous function, and a function whose displayName is the empty string
CustomComponent == Host(Str("MyCustomComponent"), Undef)
LabelledComponent == Host(Str("Shown"), Str("NamedComponent"))
AnonymousComponent == Host(Undef, Str(""))
BlankComponent == Host(Str(""), Str("NamedComponent"))
Hosts == {View, CustomComponent, LabelledComponent, AnonymousComponent, BlankComponent}

EmptyCache == [k \in {} |-> 0]

\* createTemplate that defines template.attrs unconditionally
createTemplateAlwaysAttrs(Component, attrs, shouldForwardProp, childrenRenderer) ==
    [Component |-> Component,
     attrs |-> attrs,
     shouldForwardProp |-> shouldForwardProp,
     childrenRenderer |-> childrenRenderer,
     componentCache |-> [k \in {} |-> 0],
     hasAttrsMethod |-> TRUE]

\* createTemplate(attrs, shouldForwardProp, childrenRenderer) inside wrap(Component):
\* a binder with a componentCache of its own; template.attrs exists only while
\* attrs is undefined
createTemplate(Component, attrs, shouldForwardProp, childrenRenderer) ==
    [Component |-> Component,
     attrs |-> attrs,
     shouldForwardProp |-> shouldForwardProp,
     childrenRenderer |-> childrenRenderer,
     componentCache |-> EmptyCache,
     hasAttrsMethod |-> (attrs = Undef)]

\* wrap(Component) == createTemplate(), inside the closure tw that createTwc returned
wrap(tw, Component) == createTemplate(Component, Undef, tw.defaultShouldForwardProp, Undef)

\* newShouldForwardProp without the negation of a predicate's answer
newShouldForwardPropPlain(fnOrArray) ==
    IF IsFunction(fnOrArray)
    THEN [kind |-> "config", fn |-> fnOrArray]
    ELSE [kind |-> "notIncludes", list |-> fnOrArray.a]

\* the predicate template.transientProps(fnOrArray) builds
newShouldForwardProp(fnOrArray) ==
    IF IsFunction(fnOrArray)
    THEN [kind |-> "notFn", fn |-> fnOrArray]
    ELSE [kind |-> "notIncludes", list |-> fnOrArray.a]

\* transientProps that hands the binder's current predicate on instead of the new one
transientPropsKeepsOld(template, fnOrArray) ==
    createTemplate(template.Component, template.attrs,
                   template.shouldForwardProp, template.childrenRenderer)

transientProps(template, fnOrArray) ==
    createTemplate(template.Component, template.attrs,
                   newShouldForwardProp(fnOrArray), template.childrenRenderer)

\* withChildren that starts again from a binder without attrs
withChildrenDropsAttrs(template, renderer) ==
    createTemplate(template.Component, Undef, template.shouldForwardProp, renderer)

withChildren(template, renderer) ==
    createTemplate(template.Component, template.attrs, template.shouldForwardProp, renderer)

\* attrs that starts again from the default forwarding rule
attrsOfDefaultPredicate(template, newAttrs) ==
    createTemplate(template.Component, newAttrs, [kind |-> "default"],
                   template.childrenRenderer)

attrsOf(template, newAttrs) ==
    createTemplate(template.Component, newAttrs, template.shouldForwardProp,
                   template.childrenRenderer)

-----------------------------------------------------------------------------
(* template(stringsOrFn, ...values) *)

\* a tagged-template call site: the literal fragments and the interpolated values
Tpl(strings, values) == [t |-> "template", strings |-> strings, values |-> values]

\* cacheKey that keys a literal template by its fragments alone
cacheKeyFragmentsOnly(stringsOrFn) ==
    IF IsFunction(stringsOrFn)
    THEN stringsOrFn.src
    ELSE JoinWith(stringsOrFn.strings, "|")

\* cacheKey that tells functions of the same source text apart by what they close over
cacheKeyWithClosure(stringsOrFn) ==
    IF IsFunction(stringsOrFn)
    THEN stringsOrFn.src \o "#" \o StringOf(stringsOrFn.env)
    ELSE StringRaw(stringsOrFn.strings, stringsOrFn.values)

cacheKey(stringsOrFn) ==
    IF IsFunction(stringsOrFn)
    THEN stringsOrFn.src
    ELSE StringRaw(stringsOrFn.strings, stringsOrFn.values)

\* BaseName that prefers the function name to the displayName
BaseNameNameFirst(Component, comps) ==
    IF Component.t = "twc" THEN comps[Component.id].displayName
    ELSE IF Truthy(Component.name) THEN Component.name.s
    ELSE IF Truthy(Component.displayName) THEN Component.displayName.s
    ELSE "Component"

\* Component.displayName || Component.name || 'Component'
BaseName(Component, comps) ==
    IF Component.t = "twc" THEN comps[Component.id].displayName
    ELSE IF Truthy(Component.displayName) THEN Component.displayName.s
    ELSE IF Truthy(Component.name) THEN Component.name.s
    ELSE "Component"

\* the ForwardedComponent a cache miss creates, with everything it closes over
ForwardedComponent(template, stringsOrFn, comps) ==
    [Component |-> template.Component,
     attrs |-> template.attrs,
     shouldForwardProp |-> template.shouldForwardProp,
     childrenRenderer |-> template.childrenRenderer,
     isClassFn |-> IsFunction(stringsOrFn),
     stringsOrFn |-> stringsOrFn,
     tplClassName |-> IF ~IsFunction(stringsOrFn) THEN Str(cacheKey(stringsOrFn)) ELSE Undef,
     hasAttrs |-> (template.attrs # Undef),
     isAttrsFunction |-> IsFunction(template.attrs),
     displayName |-> "twc(" \o BaseName(template.Component, comps) \o ")"]

\* Invoke without the cache lookup: every call creates and stores a component
InvokeAlwaysCreates(template, stringsOrFn, comps) ==
    [template |-> [template EXCEPT !.componentCache =
                        (cacheKey(stringsOrFn) :> (Len(comps) + 1)) @@ @],
     comps |-> Append(comps, ForwardedComponent(template, stringsOrFn, comps)),
     result |-> Len(comps) + 1]

\* Invoke with one table of components for all binders: a miss first looks for a
\* component created earlier with the same closure and class input
InvokeSharedTable(template, stringsOrFn, comps) ==
    LET key == cacheKey(stringsOrFn)
        same == {i \in 1..Len(comps) : comps[i] = ForwardedComponent(template, stringsOrFn, comps)}
    IN  IF key \in DOMAIN template.componentCache
        THEN [template |-> template, comps |-> comps, result |-> template.componentCache[key]]
        ELSE IF same # {}
        THEN [template |-> [template EXCEPT !.componentCache =
                                (key :> (CHOOSE i \in same : TRUE)) @@ @],
              comps |-> comps,
              result |-> CHOOSE i \in same : TRUE]
        ELSE [template |-> [template EXCEPT !.componentCache = (key :> (Len(comps) + 1)) @@ @],
              comps |-> Append(comps, ForwardedComponent(template, stringsOrFn, comps)),
              result |-> Len(comps) + 1]

\* Invoke with one cache per wrapped base component: a miss is answered with a
\* component any binder of that base component made from the same key
InvokeCachePerBase(template, stringsOrFn, comps) ==
    LET key == cacheKey(stringsOrFn)
        same == {i \in 1..Len(comps) :
                    /\ comps[i].Component = template.Component
                    /\ cacheKey(comps[i].stringsOrFn) = key}
    IN  IF key \in DOMAIN template.componentCache
        THEN [template |-> template, comps |-> comps, result |-> template.componentCache[key]]
        ELSE IF same # {}
        THEN [template |-> [template EXCEPT !.componentCache =
                                (key :> (CHOOSE i \in same : TRUE)) @@ @],
              comps |-> comps,
              result |-> CHOOSE i \in same : TRUE]
        ELSE [template |-> [template EXCEPT !.componentCache = (key :> (Len(comps) + 1)) @@ @],
              comps |-> Append(comps, ForwardedComponent(template, stringsOrFn, comps)),
              result |-> Len(comps) + 1]

\* Invoke whose cache keeps the newest entry only
InvokeEvicts(template, stringsOrFn, comps) ==
    LET key == cacheKey(stringsOrFn) IN
    IF key \in DOMAIN template.componentCache
    THEN [template |-> template, comps |-> comps, result |-> template.componentCache[key]]
    ELSE [template |-> [template EXCEPT !.componentCache = (key :> (Len(comps) + 1))],
          comps |-> Append(comps, ForwardedComponent(template, stringsOrFn, comps)),
          result |-> Len(comps) + 1]

\* the state of one binder's cache and of the component table after
\* template(stringsOrFn, ...values), and the component returned
Invoke(template, stringsOrFn, comps) ==
    LET key == cacheKey(stringsOrFn) IN
    IF key \in DOMAIN template.componentCache
    THEN [template |-> template, comps |-> comps, result |-> template.componentCache[key]]
    ELSE [template |-> [template EXCEPT !.componentCache = (key :> (Len(comps) + 1)) @@ @],
          comps |-> Append(comps, ForwardedComponent(template, stringsOrFn, comps)),
          result |-> Len(comps) + 1]

-----------------------------------------------------------------------------
(* The render function of a ForwardedComponent *)

\* the function finalClassName is when baseClassName is a function
DeferredClassName(baseClassName, classNameProp) ==
    Fn("(renderProps) => compose(baseClassName(renderProps), ...)",
       Arr(<<baseClassName, classNameProp>>))

\* the interaction states a pressable base component calls its className with
InteractionStates == {[pressed |-> b] : b \in BOOLEAN}

\* finalClassName(renderProps) that hands a className function to compose uncalled
CallFinalClassNameUncalled(compose, finalClassName, renderProps) ==
    Compose(compose,
            CallWithState(finalClassName.env.a[1], renderProps),
            finalClassName.env.a[2])

\* finalClassName(renderProps) for such a function
CallFinalClassName(compose, finalClassName, renderProps) ==
    LET baseClassName == finalClassName.env.a[1]
        classNameProp == finalClassName.env.a[2]
    IN  Compose(compose,
                CallWithState(baseClassName, renderProps),
                IF IsFunction(classNameProp)
                THEN CallWithState(classNameProp, renderProps)
                ELSE classNameProp)

\* the attrs this render merges under rest: none, the attrs function's result, or the
\* static mapping
ResolvedAttrs(c, p) ==
    IF ~c.hasAttrs THEN EmptyMap
    ELSE IF c.isAttrsFunction THEN CallAttrsFn(c.attrs, p)
    ELSE c.attrs.o

\* FinalProps that filters the incoming props only and lets every attrs key through
FinalPropsAttrsUnfiltered(c, p) ==
    LET rest == Without(p, {K_className, K_children}) IN
    IF ~c.hasAttrs
    THEN filterProps(rest, c.shouldForwardProp)
    ELSE Spread(ResolvedAttrs(c, p),
                filterProps(mergePropsWithAttrs(ResolvedAttrs(c, p), rest), c.shouldForwardProp))

FinalProps(c, p) ==
    LET rest == Without(p, {K_className, K_children}) IN
    IF ~c.hasAttrs
    THEN filterProps(rest, c.shouldForwardProp)
    ELSE filterProps(mergePropsWithAttrs(ResolvedAttrs(c, p), rest), c.shouldForwardProp)

BaseClassName(c, p) == IF c.isClassFn THEN CallClassFn(c.stringsOrFn, p) ELSE c.tplClassName

\* the arguments of the compose calls the render itself makes
ComposeCalls(c, p) ==
    IF IsFunction(BaseClassName(c, p)) THEN <<>>
    ELSE << <<BaseClassName(c, p), Get(p, K_className)>> >>

\* FinalClassName with the className prop first and the base class second
FinalClassNameSwapped(compose, c, p) ==
    IF IsFunction(BaseClassName(c, p))
    THEN DeferredClassName(BaseClassName(c, p), Get(p, K_className))
    ELSE Compose(compose, ComposeCalls(c, p)[1][2], ComposeCalls(c, p)[1][1])

\* FinalClassName that calls a className function itself before composing
FinalClassNameCallsProp(compose, c, p) ==
    IF IsFunction(BaseClassName(c, p))
    THEN DeferredClassName(BaseClassName(c, p), Get(p, K_className))
    ELSE Compose(compose, BaseClassName(c, p),
                 IF IsFunction(Get(p, K_className))
                 THEN CallWithState(Get(p, K_className), [pressed |-> TRUE])
                 ELSE Get(p, K_className))

FinalClassName(compose, c, p) ==
    IF IsFunction(BaseClassName(c, p))
    THEN DeferredClassName(BaseClassName(c, p), Get(p, K_className))
    ELSE Compose(compose, ComposeCalls(c, p)[1][1], ComposeCalls(c, p)[1][2])

\* the interaction states the className prop is called with, by the render or by the
\* function the render hands to the base component
ClassNamePropCalls(compose, c, p) ==
    IF IsFunction(FinalClassName(compose, c, p))
            /\ IsFunction(FinalClassName(compose, c, p).env.a[2])
    THEN InteractionStates
    ELSE {}

\* FinalChildren that passes the children on without asking the renderer
FinalChildrenUnrendered(c, p) == Get(p, K_children)

FinalChildren(c, p) ==
    IF Truthy(c.childrenRenderer)
    THEN CallRenderer(c.childrenRenderer, Get(p, K_children))
    ELSE Get(p, K_children)

\* the error filterProps raises: that of the first call of the predicate to fail
filterPropsFailure(props, shouldForwardProp) ==
    IF shouldForwardProp.kind \in {"config", "notFn"}
            /\ \E prop \in DOMAIN props : Throws(shouldForwardProp.fn, prop) # None
    THEN Throws(shouldForwardProp.fn,
                CHOOSE prop \in DOMAIN props : Throws(shouldForwardProp.fn, prop) # None)
    ELSE None

\* the render from the children renderer on: nothing follows it but the element
FailureInChildren(c, p) ==
    IF Truthy(c.childrenRenderer)
    THEN Throws(c.childrenRenderer, Get(p, K_children))
    ELSE None

\* the render from the class function on
FailureInClassName(compose, c, p) ==
    IF c.isClassFn /\ Throws(c.stringsOrFn, p) # None
    THEN Throws(c.stringsOrFn, p)
    ELSE IF ~IsFunction(BaseClassName(c, p))
                /\ Throws(compose, <<BaseClassName(c, p), Get(p, K_className)>>) # None
    THEN Throws(compose, <<BaseClassName(c, p), Get(p, K_className)>>)
    ELSE FailureInChildren(c, p)

\* Failure with the class name computed before the props
FailureClassNameFirst(compose, c, p) ==
    IF FailureInClassName(compose, c, p) # None
    THEN FailureInClassName(compose, c, p)
    ELSE IF c.hasAttrs /\ c.isAttrsFunction /\ Throws(c.attrs, p) # None
    THEN Throws(c.attrs, p)
    ELSE filterPropsFailure(
            IF ~c.hasAttrs THEN Without(p, {K_className, K_children})
            ELSE mergePropsWithAttrs(ResolvedAttrs(c, p),
                                     Without(p, {K_className, K_children})),
            c.shouldForwardProp)

\* the error one render raises, None when every call it makes returns: the calls in
\* the order of the statements of the render function
Failure(compose, c, p) ==
    IF c.hasAttrs /\ c.isAttrsFunction /\ Throws(c.attrs, p) # None
    THEN Throws(c.attrs, p)
    ELSE IF filterPropsFailure(
                IF ~c.hasAttrs THEN Without(p, {K_className, K_children})
                ELSE mergePropsWithAttrs(ResolvedAttrs(c, p),
                                         Without(p, {K_className, K_children})),
                c.shouldForwardProp) # None
    THEN filterPropsFailure(
                IF ~c.hasAttrs THEN Without(p, {K_className, K_children})
                ELSE mergePropsWithAttrs(ResolvedAttrs(c, p),
                                         Without(p, {K_className, K_children})),
                c.shouldForwardProp)
    ELSE FailureInClassName(compose, c, p)

\* Emit that spreads every incoming prop on, forwarded or not
EmitAllProps(compose, c, p, ref) ==
    [type |-> c.Component,
     ref |-> ref,
     props |-> Spread(Spread(K_className :> FinalClassName(compose, c, p),
                             Spread(Without(p, {K_className, K_children}), FinalProps(c, p))),
                      K_children :> FinalChildren(c, p))]

\* Emit that hands the incoming className on instead of the composed one
EmitIncomingClassName(compose, c, p, ref) ==
    [type |-> c.Component,
     ref |-> ref,
     props |-> Spread(Spread(K_className :> Get(p, K_className), FinalProps(c, p)),
                      K_children :> FinalChildren(c, p))]

\* <Comp ref={ref} className={finalClassName} {...finalProps}>{finalChildren}</Comp>
Emit(compose, c, p, ref) ==
    [type |-> c.Component,
     ref |-> ref,
     props |-> Spread(Spread(K_className :> FinalClassName(compose, c, p), FinalProps(c, p)),
                      K_children :> FinalChildren(c, p))]

\* the assignments to properties of objects one render makes
Writes(c, p) ==
    LET rest == Without(p, {K_className, K_children}) IN
    IF ~c.hasAttrs
    THEN filterPropsWrites(rest, c.shouldForwardProp)
    ELSE mergePropsWithAttrsWrites(ResolvedAttrs(c, p), rest)
            \cup filterPropsWrites(mergePropsWithAttrs(ResolvedAttrs(c, p), rest),
                                   c.shouldForwardProp)

\* the keys of style objects one render writes
StyleWrites(c, p) ==
    IF c.hasAttrs
    THEN mergeStylesWrites(Get(ResolvedAttrs(c, p), K_style), Get(p, K_style))
    ELSE {}

\* the attrs a component holds after a render: its static attrs object with the
\* writes of the render
AttrsAfter(c, p) ==
    IF c.hasAttrs /\ ~c.isAttrsFunction
    THEN Obj(AfterWrites("attrs", c.attrs.o, Writes(c, p)))
    ELSE c.attrs

\* one render of component id with props p: what the caller-supplied functions were
\* called with, the values computed, and the element returned
Frame(compose, comps, id, p, ref) ==
    LET c == comps[id] IN
    [component |-> id,
     p |-> p,
     attrsFnArgs |-> IF c.hasAttrs /\ c.isAttrsFunction THEN <<p>> ELSE <<>>,
     classFnArgs |-> IF c.isClassFn THEN <<p>> ELSE <<>>,
     composeArgs |-> ComposeCalls(c, p),
     rendererArgs |-> IF Truthy(c.childrenRenderer) THEN <<Get(p, K_children)>> ELSE <<>>,
     resolvedAttrs |-> ResolvedAttrs(c, p),
     finalProps |-> FinalProps(c, p),
     finalClassName |-> FinalClassName(compose, c, p),
     \* what the function finalClassName returns for each interaction state
     classNameFor |->
        IF IsFunction(FinalClassName(compose, c, p))
        THEN [s \in InteractionStates |->
                CallFinalClassName(compose, FinalClassName(compose, c, p), s)]
        ELSE <<>>,
     classNamePropArgs |-> ClassNamePropCalls(compose, c, p),
     finalChildren |-> FinalChildren(c, p),
     emit |-> Emit(compose, c, p, ref),
     \* the caller's objects after the render
     after |-> [p |-> AfterWrites("p", p, Writes(c, p)),
                attrs |-> AfterWrites("attrs", ResolvedAttrs(c, p), Writes(c, p)),
                styleKeysWritten |->
                    {w.key : w \in {w \in StyleWrites(c, p) :
                                        w.target \in {"attrs.style", "p.style"}}}]]

-----------------------------------------------------------------------------
(* Bounds and the values the operations are tried on *)

\* binders plus components a behaviour of Spec may create
MaxObjects == 4
\* style values range over 1..MaxStyleVal
MaxStyleVal == 2

Configs ==
    {[compose |-> c, shouldForwardProp |-> f] :
        c \in {Undef, CustomComposeFn}, f \in {Undef, NoUnderscoreFn}}

NoConfig == [compose |-> Undef, shouldForwardProp |-> Undef]
BothConfig == [compose |-> CustomComposeFn, shouldForwardProp |-> NoUnderscoreFn]

\* style objects over two keys, and style stacks built from them
StyleKeys == {"padding", "margin"}
StyleMaps == UNION {[S -> 1..MaxStyleVal] : S \in SUBSET StyleKeys}
SingleMaps == {m \in StyleMaps : Cardinality(DOMAIN m) = 1}
StyleObjects == {Obj(m) : m \in StyleMaps}
StyleArrays ==
    {Arr(<<>>)}
        \cup {Arr(<<Obj(a), Obj(b)>>) : a, b \in SingleMaps}
        \cup {Arr(<<Arr(<<Obj(a), Null>>), Obj(b)>>) : a, b \in SingleMaps}
StyleValues == {Undef, Null} \cup StyleObjects \cup StyleArrays

\* arguments of attrs(...)
StaticAttrs ==
    Obj((K_placeholder :> Str("Default")) @@ (K_size :> Str("md")) @@ (K_active :> Bool(TRUE)))
ClassNameAttrs == Obj((K_className :> Str("from-attrs")) @@ (K_children :> Str("Default")))
LabelAttrs == Obj(K_label :> Str("card"))
StyleAttrs(style) == Obj(K_style :> style)

\* arguments of transientProps(...)
SizeList == Arr(<<K_size>>)
ActiveList == Arr(<<K_active, K_placeholder>>)
StyleList == Arr(<<K_style>>)

\* arguments of template(...)
PlainTpl == Tpl(<<"bg-white p-4">>, <<>>)
InterpolatedTpl == Tpl(<<"", " bg-white">>, <<Str("p-4")>>)
EmptyTpl == Tpl(<<"">>, <<>>)
TwoValuesTpl == Tpl(<<"p-", " ", "">>, <<Str("4"), Bool(FALSE)>>)
\* the fragments of InterpolatedTpl around another value, its text in one fragment, and
\* a template whose text is the source text of ConstClassFn
OtherValueTpl == Tpl(<<"", " bg-white">>, <<Str("m-2")>>)
JoinedTpl == Tpl(<<"p-4 bg-white">>, <<>>)
SourceTextTpl == Tpl(<<"() => 'p-2'">>, <<>>)

\* the props of an element: each of some keys present with one value, or absent
PropValue(k) ==
    CASE k = K_active -> Bool(TRUE)
      [] k = K_padded -> Bool(TRUE)
      [] k = K_size -> Str("lg")
      [] k = K_sized -> Bool(TRUE)
      [] k = K_variant -> Str("primary")
      [] k = K_placeholder -> Str("Custom")
PropsOver(keys) == {[k \in S |-> PropValue(k)] : S \in SUBSET keys}

-----------------------------------------------------------------------------
(* The life of the binders and their caches *)

Objects == Len(templates) + Len(components)

BaseComponents == {View} \cup {Wrapped(i) : i \in 1..Len(components)}
AttrsArgs == {StaticAttrs, LabelAttrsFn}
TransientArgs == {SizeList}
ClassInputs == {PlainTpl, InterpolatedTpl, BaseClassFn(Str("p-4")), BaseClassFn(Str("m-2"))}

NewTemplate(template, how) ==
    /\ Objects < MaxObjects
    /\ templates' = Append(templates, template)
    /\ origin' = Append(origin, how)
    /\ UNCHANGED <<twc, components, ret, element, rendered, raised>>

\* twc(Component)
Wrap ==
    \E Component \in BaseComponents :
        NewTemplate(wrap(twc, Component), [op |-> "wrap", from |-> 0, arg |-> Component])

\* template.attrs(newAttrs), which exists only on a binder without attrs
Attrs ==
    \E b \in 1..Len(templates), newAttrs \in AttrsArgs :
        /\ templates[b].hasAttrsMethod
        /\ NewTemplate(attrsOf(templates[b], newAttrs),
                       [op |-> "attrs", from |-> b, arg |-> newAttrs])

\* template.transientProps(fnOrArray)
TransientProps ==
    \E b \in 1..Len(templates), fnOrArray \in TransientArgs :
        NewTemplate(transientProps(templates[b], fnOrArray),
                    [op |-> "transientProps", from |-> b, arg |-> fnOrArray])

\* template.withChildren(renderer)
WithChildren ==
    \E b \in 1..Len(templates) :
        NewTemplate(withChildren(templates[b], TextRenderer),
                    [op |-> "withChildren", from |-> b, arg |-> TextRenderer])

\* template(stringsOrFn, ...values) with the class input drawn from inputs
Invocation(inputs) ==
    \E b \in 1..Len(templates), stringsOrFn \in inputs :
        LET after == Invoke(templates[b], stringsOrFn, components) IN
        /\ after.comps # components => Objects < MaxObjects
        /\ templates' = [templates EXCEPT ![b] = after.template]
        /\ components' = after.comps
        /\ ret' = [template |-> b, stringsOrFn |-> stringsOrFn, component |-> after.result]
        /\ UNCHANGED <<twc, origin, element, rendered, raised>>

Template == Invocation(ClassInputs)

\* React renders the waiting element; when the base component is itself a wrapped
\* component, the element this render returns is the next one to render
Render ==
    /\ element # None
    /\ IF Failure(twc.compose, components[element.type], element.props) # None
       THEN \* the error leaves the render function: nothing is returned to React
            /\ raised' = Failure(twc.compose, components[element.type], element.props)
            /\ element' = None
            /\ UNCHANGED <<rendered, components>>
       ELSE LET frame == Frame(twc.compose, components, element.type, element.props,
                               element.ref) IN
            /\ raised' = None
            /\ rendered' = Append(rendered, frame)
            /\ element' = IF frame.emit.type.t = "twc"
                          THEN [type |-> frame.emit.type.id, props |-> frame.emit.props,
                                ref |-> frame.emit.ref]
                          ELSE None
            /\ components' = [components EXCEPT ![element.type].attrs =
                                    AttrsAfter(components[element.type], element.props)]
    /\ UNCHANGED <<twc, templates, origin, ret>>

\* the caller renders the same element again
Rerender ==
    /\ element = None
    /\ rendered # <<>>
    /\ element' = [type |-> rendered[1].component, props |-> rendered[1].p, ref |-> Undef]
    /\ rendered' = <<>>
    /\ raised' = None
    /\ UNCHANGED <<twc, templates, origin, components, ret>>

Init ==
    /\ twc \in {createTwc(config) : config \in {NoConfig, BothConfig}}
    /\ templates = <<>>
    /\ origin = <<>>
    /\ components = <<>>
    /\ ret = None
    /\ element = None
    /\ rendered = <<>>
    /\ raised = None

Next == Wrap \/ Attrs \/ TransientProps \/ WithChildren \/ Template

Spec == Init /\ [][Next]_vars

-----------------------------------------------------------------------------
(* Rendering: one component, built by a chain of modifiers, and one element of it *)

\* the kinds of modifier call, in the order the scenarios apply them unless they say
\* otherwise
DefaultOrder == <<"transientProps", "attrs", "withChildren">>

\* the modifier calls of one kind a scenario makes
StepsOf(sc, kind) ==
    IF kind = "transientProps"
    THEN [i \in 1..Len(sc.transient) |-> [op |-> "transientProps", arg |-> sc.transient[i]]]
    ELSE IF kind = "attrs"
    THEN (IF sc.attrs = Undef THEN <<>> ELSE <<[op |-> "attrs", arg |-> sc.attrs]>>)
    ELSE (IF sc.renderer = Undef THEN <<>>
          ELSE <<[op |-> "withChildren", arg |-> sc.renderer]>>)

\* all of them, in the order of the calls
Steps(sc) ==
    StepsOf(sc, sc.order[1]) \o StepsOf(sc, sc.order[2]) \o StepsOf(sc, sc.order[3])

\* template.attrs(arg), template.transientProps(arg) or template.withChildren(arg)
ApplyModifier(template, step) ==
    CASE step.op = "transientProps" -> transientProps(template, step.arg)
      [] step.op = "attrs" -> attrsOf(template, step.arg)
      [] step.op = "withChildren" -> withChildren(template, step.arg)

\* the binders in the order they are created, each modifier called on the binder the
\* call before it returned, and how each was obtained
RECURSIVE ModifierChain(_, _, _)
ModifierChain(ts, os, steps) ==
    IF Len(steps) = 0 THEN [templates |-> ts, origin |-> os]
    ELSE ModifierChain(
            Append(ts, ApplyModifier(ts[Len(ts)], Head(steps))),
            Append(os, [op |-> Head(steps).op, from |-> Len(ts), arg |-> Head(steps).arg]),
            Tail(steps))

\* the binder of the inner component of a scenario that has one: wrap(base), with the
\* scenario's inner attrs if it has any
InnerBinder(tw, sc) ==
    IF sc.innerAttrs = Undef THEN wrap(tw, sc.base)
    ELSE attrsOf(wrap(tw, sc.base), sc.innerAttrs)

\* the binder the chain starts from: wrap(base), or, when the scenario has an inner class
\* input, wrap of the component that the inner binder makes from that input, which is
\* the first component created
Seed(tw, sc) ==
    IF sc.inner = Undef
    THEN [templates |-> <<wrap(tw, sc.base)>>,
          origin |-> <<[op |-> "wrap", from |-> 0, arg |-> sc.base]>>,
          comps |-> <<>>]
    ELSE IF sc.innerAttrs = Undef
    THEN [templates |-> <<Invoke(wrap(tw, sc.base), sc.inner, <<>>).template,
                          wrap(tw, Wrapped(1))>>,
          origin |-> <<[op |-> "wrap", from |-> 0, arg |-> sc.base],
                       [op |-> "wrap", from |-> 0, arg |-> Wrapped(1)]>>,
          comps |-> Invoke(wrap(tw, sc.base), sc.inner, <<>>).comps]
    ELSE [templates |-> <<wrap(tw, sc.base),
                          Invoke(InnerBinder(tw, sc), sc.inner, <<>>).template,
                          wrap(tw, Wrapped(1))>>,
          origin |-> <<[op |-> "wrap", from |-> 0, arg |-> sc.base],
                       [op |-> "attrs", from |-> 1, arg |-> sc.innerAttrs],
                       [op |-> "wrap", from |-> 0, arg |-> Wrapped(1)]>>,
          comps |-> Invoke(InnerBinder(tw, sc), sc.inner, <<>>).comps]

Chain(tw, sc) == ModifierChain(Seed(tw, sc).templates, Seed(tw, sc).origin, Steps(sc))

Scenario(config, transient, attrs, renderer, input, props) ==
    [config |-> config, base |-> View, inner |-> Undef, innerAttrs |-> Undef,
     order |-> DefaultOrder,
     transient |-> transient, attrs |-> attrs, renderer |-> renderer, input |-> input,
     props |-> props]

\* attrs and props that both may carry a style, under a predicate that forwards style
\* and under one that does not
StyleScenarios ==
    {Scenario(NoConfig, transient, attrs, Undef, PlainTpl, props) :
        transient \in {<<>>, <<StyleList>>},
        attrs \in {LabelAttrs, PaddedAttrsFn} \cup {StyleAttrs(s) : s \in StyleValues},
        props \in {EmptyMap, K_padded :> Bool(TRUE)} \cup {K_style :> s : s \in StyleValues}}

\* every forwarding predicate, against props and attrs whose names it tells apart
ForwardScenarios ==
    {Scenario(config, transient, attrs, Undef, input, props) :
        config \in Configs,
        transient \in {<<>>, <<SizeList>>, <<IsSizeFn>>, <<StartsWithSFn>>,
                       <<ActiveList, SizeList>>},
        attrs \in {Undef, StaticAttrs, LabelAttrsFn},
        input \in {PlainTpl, ActiveClassFn},
        props \in PropsOver({K_active, K_size, K_sized, K_variant, K_placeholder})}

\* every shape of class input against every shape of className prop
ClassScenarios ==
    {Scenario(config, <<>>, attrs, Undef, input, props @@ more) :
        config \in {c \in Configs : c.shouldForwardProp = Undef},
        attrs \in {Undef, ClassNameAttrs},
        input \in {PlainTpl, InterpolatedTpl, EmptyTpl, TwoValuesTpl, ActiveClassFn,
                   MapClassFn, PressedClassFn, BaseClassFn(Str("p-4"))},
        props \in {EmptyMap} \cup
                  {K_className :> v :
                      v \in {Undef, Str("shadow"), Str(""), Str("bg-white p-4"),
                             Arr(<<Str("rounded"), Str("p-4")>>), PressedClassName}},
        more \in PropsOver({K_active})}

\* children with and without a renderer
ChildrenScenarios ==
    {Scenario(NoConfig, <<>>, attrs, renderer, PlainTpl, props) :
        attrs \in {Undef, ClassNameAttrs},
        renderer \in {Undef, TextRenderer},
        props \in {EmptyMap} \cup {K_children :> v : v \in {Undef, Str("Content")}}}

\* a component made from a wrapped component, over every kind of base component
InnerTpl == Tpl(<<"py-2 px-4 rounded">>, <<>>)
OuterTpl == Tpl(<<"bg-blue-500 text-white">>, <<>>)
NestedScenarios ==
    {[config |-> config, base |-> base, inner |-> inner, innerAttrs |-> Undef,
      order |-> DefaultOrder, transient |-> <<>>,
      attrs |-> Undef, renderer |-> Undef, input |-> input, props |-> props @@ more] :
        config \in Configs,
        base \in Hosts,
        inner \in {InnerTpl, PlainTpl},
        input \in {OuterTpl, PlainTpl, EmptyTpl},
        props \in {EmptyMap} \cup {K_className :> v : v \in {Str("shadow"), Str("")}},
        more \in PropsOver({K_active, K_variant})}

\* caller-supplied functions that fail, alone and together
ErrorScenarios ==
    {Scenario([compose |-> cmp, shouldForwardProp |-> pred], transient, attrs, renderer,
              input, props) :
        cmp \in {Undef, ThrowingComposeFn},
        pred \in {Undef, ThrowingPredicateFn},
        transient \in {<<>>, <<ThrowingPredicateFn>>},
        attrs \in {Undef, StaticAttrs, ThrowingAttrsFn},
        renderer \in {Undef, ThrowingRendererFn},
        input \in {PlainTpl, ThrowingClassFn, PressedClassFn},
        props \in {EmptyMap, K_size :> Str("lg"), K_variant :> Str("primary")}}

\* the orders in which one call of each modifier can be made
Orders ==
    {o \in [1..3 -> {"transientProps", "attrs", "withChildren"}] :
        \A i, j \in 1..3 : o[i] = o[j] => i = j}

\* one call of each modifier, in every order
OrderScenarios ==
    {[Scenario(NoConfig, <<transient>>, attrs, TextRenderer, input, props @@ children)
        EXCEPT !.order = order] :
        order \in Orders,
        transient \in {SizeList, IsSizeFn},
        attrs \in {StaticAttrs, LabelAttrsFn},
        input \in {PlainTpl, ActiveClassFn},
        props \in PropsOver({K_active, K_size}),
        children \in {EmptyMap, K_children :> Str("Content")}}

\* a component with a class function and an attrs function, wrapped again under every
\* kind of forwarding predicate
WrappedScenarios ==
    {[Scenario(config, transient, attrs, Undef, input, props @@ more)
        EXCEPT !.inner = inner, !.innerAttrs = innerAttrs] :
        config \in Configs,
        inner \in {ActiveClassFn, InnerTpl},
        innerAttrs \in {Undef, LabelAttrsFn},
        transient \in {<<>>, <<SizeList>>, <<IsSizeFn>>},
        attrs \in {Undef, StaticAttrs},
        input \in {OuterTpl, ActiveClassFn},
        props \in PropsOver({K_active, K_size, K_variant}),
        more \in {EmptyMap, K_className :> Str("shadow")}}

Scenarios ==
    StyleScenarios \cup ForwardScenarios \cup ClassScenarios \cup ChildrenScenarios
        \cup NestedScenarios \cup ErrorScenarios \cup OrderScenarios
        \cup WrappedScenarios

InitRender ==
    \E sc \in Scenarios :
        LET tw == createTwc(sc.config)
            chain == Chain(tw, sc)
            n == Len(chain.templates)
            after == Invoke(chain.templates[n], sc.input, Seed(tw, sc).comps)
        IN  /\ twc = tw
            /\ templates = [chain.templates EXCEPT ![n] = after.template]
            /\ origin = chain.origin
            /\ components = after.comps
            /\ ret = [template |-> n, stringsOrFn |-> sc.input, component |-> after.result]
            /\ element = [type |-> after.result, props |-> sc.props, ref |-> Undef]
            /\ rendered = <<>>
            /\ raised = None

NextRender == Render \/ Rerender

SpecRender == InitRender /\ [][NextRender]_vars

-----------------------------------------------------------------------------
(* One binder invoked again and again, its components rendered in between *)

\* class inputs that share fragments, text or source text
CacheInputs ==
    {InterpolatedTpl, OtherValueTpl, JoinedTpl, SourceTextTpl, ConstClassFn,
     BaseClassFn(Str("p-4")), BaseClassFn(Str("m-2"))}

TemplateCache == Invocation(CacheInputs)

\* the caller makes an element of the component the last invocation returned
CreateElement ==
    /\ ret # None
    /\ element = None
    /\ \E props \in {EmptyMap, K_className :> Str("shadow")} :
          element' = [type |-> ret.component, props |-> props, ref |-> Undef]
    /\ rendered' = <<>>
    /\ raised' = None
    /\ UNCHANGED <<twc, templates, origin, components, ret>>

InitCache ==
    /\ twc \in {createTwc(config) : config \in {NoConfig, BothConfig}}
    /\ templates = <<wrap(twc, View)>>
    /\ origin = <<[op |-> "wrap", from |-> 0, arg |-> View]>>
    /\ components = <<>>
    /\ ret = None
    /\ element = None
    /\ rendered = <<>>
    /\ raised = None

NextCache == TemplateCache \/ CreateElement \/ Render

SpecCache == InitCache /\ [][NextCache]_vars

-----------------------------------------------------------------------------
(* Vocabulary of the properties *)

Cache(b) == templates[b].componentCache
Binders == 1..Len(templates)
Frames == {rendered[i] : i \in 1..Len(rendered)}

\* the binder whose invocation created component id
BinderOf(id) == CHOOSE b \in Binders : \E k \in DOMAIN Cache(b) : Cache(b)[k] = id

\* the calls that produced binder b: wrap(Component), then each modifier with its argument
RECURSIVE ChainOf(_)
ChainOf(b) ==
    IF origin[b].op = "wrap" THEN <<[op |-> "wrap", arg |-> origin[b].arg]>>
    ELSE Append(ChainOf(origin[b].from), [op |-> origin[b].op, arg |-> origin[b].arg])

\* the binder on which the last transientProps call of b's chain was made (0: none)
RECURSIVE TransientParent(_)
TransientParent(b) ==
    IF origin[b].op = "wrap" THEN 0
    ELSE IF origin[b].op = "transientProps" THEN origin[b].from
    ELSE TransientParent(origin[b].from)

\* the argument of that call
RECURSIVE TransientArg(_)
TransientArg(b) ==
    IF origin[b].op = "transientProps" THEN origin[b].arg ELSE TransientArg(origin[b].from)

\* X matches the name: it is an element of the list X, or the predicate X returns true
Matches(X, name) ==
    IF IsFunction(X) THEN CallPredicate(X, name)
    ELSE name \in {X.a[i] : i \in 1..Len(X.a)}

\* the incoming props without className and children
Rest(f) == {n \in DOMAIN f.p : n # K_className /\ n # K_children}

AttrsStyle(f) == Get(f.resolvedAttrs, K_style)
PropsStyle(f) == Get(f.p, K_style)
StyleForwarded(f) == ShouldForward(components[f.component].shouldForwardProp, K_style)

\* the plain objects of a style, left to right, null entries skipped
RECURSIVE Leaves(_)
Leaves(style) ==
    IF IsNullish(style) THEN <<>>
    ELSE IF style.t = "array" THEN
        LET RECURSIVE cat(_)
            cat(i) == IF i > Len(style.a) THEN <<>> ELSE Leaves(style.a[i]) \o cat(i + 1)
        IN  cat(1)
    ELSE <<style.o>>

\* the value the last of the leaves that has key k gives it
LastValue(leaves, k) ==
    leaves[CHOOSE i \in 1..Len(leaves) :
              /\ k \in DOMAIN leaves[i]
              /\ \A j \in (i + 1)..Len(leaves) : k \notin DOMAIN leaves[j]][k]

LeafKeys(leaves) == UNION {DOMAIN leaves[i] : i \in 1..Len(leaves)}

-----------------------------------------------------------------------------
(* C1 *)

\* C1: on one binder, a literal-template invocation whose text that binder has been
\* invoked with before returns the component the first invocation stored, and creates
\* no component.
C1_SecondCallReturnsFirst ==
    [][(ret' # None /\ ret'.stringsOrFn.t = "template") =>
        LET b == ret'.template
            k == cacheKey(ret'.stringsOrFn)
        IN  /\ ret'.component = templates'[b].componentCache[k]
            /\ k \in DOMAIN Cache(b) =>
                  /\ ret'.component = Cache(b)[k]
                  /\ components' = components]_vars

\* the last invocation was a literal template and returned an older component than the
\* newest one: it was answered from the cache
C1_Witness ==
    /\ ret # None
    /\ ret.stringsOrFn.t = "template"
    /\ ret.component < Len(components)
    /\ BinderOf(Len(components)) = ret.template

-----------------------------------------------------------------------------
(* C2 *)

\* both binders were produced by the same calls with the same arguments
SameChain(b1, b2) == ChainOf(b1) = ChainOf(b2)

\* C2 as stated: two invocations with the same template input on binders built by
\* identical chains return the same component, also when the chain was built twice.
C2_SameChainSameComponent ==
    \A b1, b2 \in Binders :
        SameChain(b1, b2) =>
            \A k \in (DOMAIN Cache(b1)) \cap (DOMAIN Cache(b2)) : Cache(b1)[k] = Cache(b2)[k]

\* C2 amended: invocations with the same template input return the same component
\* exactly when they are made on the same binder object; a chain built again is another
\* binder with a cache of its own, and it returns another component.
C2_SameBinderSameComponent ==
    /\ \A b1, b2 \in Binders :
          SameChain(b1, b2) =>
              \A k \in (DOMAIN Cache(b1)) \cap (DOMAIN Cache(b2)) :
                  (Cache(b1)[k] = Cache(b2)[k]) <=> (b1 = b2)
    /\ ret # None =>
          ret.component = Cache(ret.template)[cacheKey(ret.stringsOrFn)]

\* two binders built by identical chains have both been invoked with the same input
C2_Witness ==
    \E b1, b2 \in Binders :
        /\ b1 # b2
        /\ SameChain(b1, b2)
        /\ (DOMAIN Cache(b1)) \cap (DOMAIN Cache(b2)) # {}

-----------------------------------------------------------------------------
(* C3 *)

DefaultRule(f) == components[f.component].shouldForwardProp = [kind |-> "default"]

\* C3: under the default forwarding rule, every incoming property whose name starts
\* with $ is in the mapping given to the attrs function and in the mapping given to the
\* class function, with its value, and is not among the properties of the element
\* rendered for the base component.
C3_DollarPropsSeenNotForwarded ==
    \A f \in Frames :
        DefaultRule(f) =>
            \A n \in DOMAIN f.p :
                StartsWith(n, <<"$">>) =>
                    /\ \A i \in 1..Len(f.attrsFnArgs) :
                          n \in DOMAIN f.attrsFnArgs[i] /\ f.attrsFnArgs[i][n] = f.p[n]
                    /\ \A i \in 1..Len(f.classFnArgs) :
                          n \in DOMAIN f.classFnArgs[i] /\ f.classFnArgs[i][n] = f.p[n]
                    /\ n \notin DOMAIN f.emit.props
                    /\ n \notin DOMAIN f.finalProps

\* a render under the default rule in which an attrs function and a class function were
\* both called and the props carried $active
C3_Witness ==
    \E f \in Frames :
        /\ DefaultRule(f)
        /\ K_active \in DOMAIN f.p
        /\ Len(f.attrsFnArgs) = 1
        /\ Len(f.classFnArgs) = 1
        /\ f.finalClassName = Str("bg-blue-500")

-----------------------------------------------------------------------------
(* C4 *)

\* the binder of the component was produced through transientProps
HasTransient(f) == TransientParent(BinderOf(f.component)) # 0

\* C4: after transientProps(X), an incoming property is kept from the base component
\* if and only if X matches its name: the name is exactly an element of the list X, or
\* the predicate X returns true for it.
C4_ExcludedIffMatched ==
    \A f \in Frames :
        HasTransient(f) =>
            \A n \in Rest(f) :
                (n \notin DOMAIN f.emit.props) <=> Matches(TransientArg(BinderOf(f.component)), n)

\* size and sized were both passed to a component made after transientProps(["size"]):
\* size is kept back, sized reaches the base component
C4_Witness ==
    \E f \in Frames :
        /\ HasTransient(f)
        /\ TransientArg(BinderOf(f.component)) = SizeList
        /\ {K_size, K_sized} \subseteq DOMAIN f.p
        /\ K_size \notin DOMAIN f.emit.props
        /\ K_sized \in DOMAIN f.emit.props

-----------------------------------------------------------------------------
(* C5 *)

\* the predicate in effect on the binder transientProps was called on
EarlierPredicate(f) == templates[TransientParent(BinderOf(f.component))].shouldForwardProp

\* C5: after transientProps(X), an incoming property that the predicate in effect
\* before the call rejected (the default $ rule, config.shouldForwardProp, or an earlier
\* transientProps) reaches the base component, with its value, unless X matches it.
C5_TransientSupersedes ==
    \A f \in Frames :
        HasTransient(f) =>
            \A n \in Rest(f) :
                (/\ ~ShouldForward(EarlierPredicate(f), n)
                 /\ ~Matches(TransientArg(BinderOf(f.component)), n))
                    => (n \in DOMAIN f.emit.props /\ f.emit.props[n] = f.p[n])

\* a property rejected by the earlier predicate was forwarded after transientProps
Superseded(f, kind) ==
    /\ HasTransient(f)
    /\ EarlierPredicate(f).kind = kind
    /\ \E n \in Rest(f) :
          /\ ~ShouldForward(EarlierPredicate(f), n)
          /\ n \in DOMAIN f.emit.props

C5_Witness == \E f \in Frames : Superseded(f, "notIncludes")

-----------------------------------------------------------------------------
(* C6 *)

-----------------------------------------------------------------------------
(* C7 *)

\* the keys the merge is about: neither style nor the two keys split off the props
Plain(n) == n \notin {K_style, K_className, K_children}

\* C7: a key other than style that is both in the resolved attrs and in the incoming
\* props (rest) is forwarded with the incoming prop's value; a forwarded key has the
\* attrs value only if the incoming props do not carry it.
C7_RestWinsOverAttrs ==
    \A f \in Frames :
        /\ \A n \in (DOMAIN f.resolvedAttrs) \cap Rest(f) :
              Plain(n) =>
                  IF ShouldForward(components[f.component].shouldForwardProp, n)
                  THEN n \in DOMAIN f.emit.props /\ f.emit.props[n] = f.p[n]
                  ELSE n \notin DOMAIN f.emit.props
        /\ \A n \in (DOMAIN f.emit.props) \ Rest(f) :
              Plain(n) => (n \in DOMAIN f.resolvedAttrs /\ f.emit.props[n] = f.resolvedAttrs[n])

\* attrs give placeholder "Default", the props give "Custom", the base component gets
\* "Custom"
C7_Witness ==
    \E f \in Frames :
        /\ K_placeholder \in DOMAIN f.resolvedAttrs
        /\ K_placeholder \in Rest(f)
        /\ f.resolvedAttrs[K_placeholder] # f.p[K_placeholder]
        /\ f.emit.props[K_placeholder] = Str("Custom")

-----------------------------------------------------------------------------
(* C8 *)

\* exactly one of the two sides holds a style that is not null or undefined
OneSided(f) == IsNullish(AttrsStyle(f)) # IsNullish(PropsStyle(f))

\* C8: when exactly one of the resolved attrs and the incoming props holds a non-null
\* style, the base component is given that style unchanged, whether the other side's
\* style key is absent or present with null or undefined.
C8_OneSidedStyleKept ==
    \A f \in Frames :
        (OneSided(f) /\ StyleForwarded(f)) =>
            /\ K_style \in DOMAIN f.emit.props
            /\ f.emit.props[K_style] =
                  IF IsNullish(PropsStyle(f)) THEN AttrsStyle(f) ELSE PropsStyle(f)

-----------------------------------------------------------------------------
(* C9 *)

\* a style is on both sides and at least one of them is a sequence
Stacked(f) ==
    /\ ~IsNullish(AttrsStyle(f))
    /\ ~IsNullish(PropsStyle(f))
    /\ (AttrsStyle(f).t = "array" \/ PropsStyle(f).t = "array")

-----------------------------------------------------------------------------
(* C10 *)

\* the base class of a render, from the component's class input alone
ExpectedBase(f) ==
    LET c == components[f.component] IN
    IF IsFunction(c.stringsOrFn) THEN CallClassFn(c.stringsOrFn, f.p)
    ELSE Str(StringRaw(c.stringsOrFn.strings, c.stringsOrFn.values))

\* C10: when the base class is not a function, the render calls compose exactly once,
\* with the base class first and the className prop second, and the final class name is
\* that call's result; under clsx the template `bg-white p-4` gives "bg-white p-4 shadow"
\* with className "shadow" and "bg-white p-4" without a className.
C10_ComposeBaseThenProp ==
    \A f \in Frames :
        ~IsFunction(ExpectedBase(f)) =>
            /\ f.composeArgs = << <<ExpectedBase(f), Get(f.p, K_className)>> >>
            /\ f.finalClassName = Compose(twc.compose, ExpectedBase(f), Get(f.p, K_className))
            /\ (twc.compose = ClsxFn /\ components[f.component].stringsOrFn = PlainTpl) =>
                  /\ Get(f.p, K_className) = Str("shadow")
                        => f.finalClassName = Str("bg-white p-4 shadow")
                  /\ K_className \notin DOMAIN f.p
                        => f.finalClassName = Str("bg-white p-4")

\* the scenario of the specification: template `bg-white p-4`, className "shadow",
\* default compose
C10_Witness ==
    \E f \in Frames :
        /\ twc.compose = ClsxFn
        /\ components[f.component].stringsOrFn = PlainTpl
        /\ Get(f.p, K_className) = Str("shadow")
        /\ f.finalClassName = Str("bg-white p-4 shadow")
        /\ f.emit.props[K_className] = Str("bg-white p-4 shadow")

-----------------------------------------------------------------------------
(* C11 *)

\* the component was made from a literal template
Literal(f) == ~components[f.component].isClassFn

\* the className prop is a string or there is none
PlainClassName(f) == Get(f.p, K_className).t \in {"string", "undefined"}

\* the segments joined by single spaces, empty and undefined ones left out, nothing else
\* removed
SpaceJoined(T, C) ==
    IF T = "" THEN (IF C.t = "string" THEN C.s ELSE "")
    ELSE IF C.t = "string" /\ C.s # "" THEN T \o " " \o C.s
    ELSE T

\* C11: without config.compose, the class name composed from a literal template T and
\* a className prop C is T and C joined by one space, an empty or missing segment
\* skipped; nothing is deduplicated, so classes present in both appear twice.
C11_DefaultComposeJoins ==
    \A f \in Frames :
        (twc.compose = ClsxFn /\ Literal(f) /\ PlainClassName(f)) =>
            f.finalClassName =
                Str(SpaceJoined(cacheKey(components[f.component].stringsOrFn),
                                Get(f.p, K_className)))

\* template `bg-white p-4` rendered with className "bg-white p-4": both copies are kept
C11_Witness ==
    \E f \in Frames :
        /\ twc.compose = ClsxFn
        /\ components[f.component].stringsOrFn = PlainTpl
        /\ Get(f.p, K_className) = Str("bg-white p-4")
        /\ f.finalClassName = Str("bg-white p-4 bg-white p-4")

-----------------------------------------------------------------------------
(* C12 *)

\* what the class function returns for the props of the render
ClassFnResult(f) == CallClassFn(components[f.component].stringsOrFn, f.p)

\* the class function returned a function of the interaction state
Deferred(f) == components[f.component].isClassFn /\ IsFunction(ClassFnResult(f))

\* C12: when the class function returns a function, the render calls compose not at
\* all and the final class name is a function; called with an interaction state s it
\* gives compose(classFn(p)(s), c), c being classNameProp(s) for a className function
\* and the className prop itself otherwise.  That function is the className of the
\* element unless the attrs carry a className of their own.
C12_DeferredClassName ==
    \A f \in Frames :
        Deferred(f) =>
            LET classNameProp == Get(f.p, K_className) IN
            /\ f.composeArgs = <<>>
            /\ IsFunction(f.finalClassName)
            /\ DOMAIN f.classNameFor = InteractionStates
            /\ \A s \in InteractionStates :
                  f.classNameFor[s] =
                      Compose(twc.compose,
                              CallWithState(ClassFnResult(f), s),
                              IF IsFunction(classNameProp)
                              THEN CallWithState(classNameProp, s)
                              ELSE classNameProp)
            /\ K_className \notin DOMAIN f.resolvedAttrs
                  => f.emit.props[K_className] = f.finalClassName

\* a class function and a className prop that both depend on the pressed state
C12_Witness ==
    \E f \in Frames :
        /\ Deferred(f)
        /\ twc.compose = ClsxFn
        /\ Get(f.p, K_className) = PressedClassName
        /\ f.classNameFor[[pressed |-> TRUE]] = Str("bg-blue-700 scale-95")
        /\ f.classNameFor[[pressed |-> FALSE]] = Str("bg-blue-500")
        /\ IsFunction(f.emit.props[K_className])

-----------------------------------------------------------------------------
(* C13 *)

Renderer(f) == components[f.component].childrenRenderer

\* C13: a bound children renderer is called exactly once per render, with the incoming
\* children (undefined when none were passed), and what it returns is the children of
\* the element; without a renderer the children of the element are the incoming ones.
C13_ChildrenThroughRenderer ==
    \A f \in Frames :
        IF Renderer(f) # Undef
        THEN /\ f.rendererArgs = <<Get(f.p, K_children)>>
             /\ f.emit.props[K_children] = Elem("Text", Get(f.p, K_children))
        ELSE /\ f.rendererArgs = <<>>
             /\ f.emit.props[K_children] = Get(f.p, K_children)

\* a component with a renderer rendered without children: the renderer got undefined
C13_Witness ==
    \E f \in Frames :
        /\ Renderer(f) = TextRenderer
        /\ K_children \notin DOMAIN f.p
        /\ f.rendererArgs = <<Undef>>
        /\ f.emit.props[K_children] = Elem("Text", Undef)

-----------------------------------------------------------------------------
(* C14 *)

Predicate(f) == components[f.component].shouldForwardProp

\* the resolved attrs with the incoming props (less className and children) over them
Merged(f) == mergePropsWithAttrs(f.resolvedAttrs, [n \in Rest(f) |-> f.p[n]])

\* C14: whatever predicate is in effect, the properties forwarded from the merge of
\* the resolved attrs and the incoming props are exactly the merged keys the predicate
\* accepts, each with its merged value: a key that only the attrs supply is dropped by
\* the predicate like an incoming one.  These are the properties of the element, apart
\* from className and children, which the render sets itself.
C14_ForwardedIffAccepted ==
    \A f \in Frames :
        /\ DOMAIN f.finalProps = {n \in DOMAIN Merged(f) : ShouldForward(Predicate(f), n)}
        /\ \A n \in DOMAIN f.finalProps : f.finalProps[n] = Merged(f)[n]
        /\ \A n \in (DOMAIN Merged(f)) \ {K_className, K_children} :
              IF ShouldForward(Predicate(f), n)
              THEN n \in DOMAIN f.emit.props /\ f.emit.props[n] = Merged(f)[n]
              ELSE n \notin DOMAIN f.emit.props

\* static attrs supply $active and size; the default predicate drops the first, a
\* transientProps(["size"]) predicate the second
AttrsKeyDropped(f, kind, n) ==
    /\ Predicate(f).kind = kind
    /\ n \in DOMAIN f.resolvedAttrs
    /\ n \notin DOMAIN f.p
    /\ n \notin DOMAIN f.emit.props
    /\ K_placeholder \in DOMAIN f.emit.props

C14_Witness == \E f \in Frames : AttrsKeyDropped(f, "default", K_active)

-----------------------------------------------------------------------------
(* C15 *)

\* the property names of the model
Names ==
    {K_className, K_children, K_style, K_size, K_sized, K_placeholder, K_label, K_active,
     K_padded, K_variant}

\* the step created a binder through a modifier
ModifierStep ==
    /\ Len(templates') = Len(templates) + 1
    /\ origin'[Len(templates')].op # "wrap"

\* C15: a modifier returns a new binder with the base component of the binder it was
\* called on and that binder's attrs, forwarding predicate and children renderer, except
\* the one field the modifier sets (attrs: the given attrs; transientProps: a predicate
\* rejecting exactly what the argument matches; withChildren: the given renderer).  The
\* binders that existed, their caches included, and the components made so far stay as
\* they were.
C15_ModifierChangesOneField ==
    [][ModifierStep =>
        LET n == Len(templates')
            how == origin'[n]
            old == templates[how.from]
            new == templates'[n]
        IN  /\ new.Component = old.Component
            /\ IF how.op = "attrs" THEN new.attrs = how.arg ELSE new.attrs = old.attrs
            /\ IF how.op = "transientProps"
               THEN \A name \in Names :
                        ShouldForward(new.shouldForwardProp, name) <=> ~Matches(how.arg, name)
               ELSE new.shouldForwardProp = old.shouldForwardProp
            /\ IF how.op = "withChildren"
               THEN new.childrenRenderer = how.arg
               ELSE new.childrenRenderer = old.childrenRenderer
            /\ \A b \in Binders : templates'[b] = templates[b]
            /\ components' = components]_vars

\* withChildren was called on a binder that has attrs and has produced a component: the
\* new binder has the same attrs and the old one still has its component
C15_Witness ==
    \E b \in Binders :
        /\ origin[b].op = "withChildren"
        /\ templates[origin[b].from].attrs # Undef
        /\ templates[b].attrs = templates[origin[b].from].attrs
        /\ templates[b].childrenRenderer = TextRenderer
        /\ templates[origin[b].from].childrenRenderer = Undef
        /\ DOMAIN Cache(origin[b].from) # {}

-----------------------------------------------------------------------------
(* C16 *)

\* the number of attrs calls among the calls that produced binder b
AttrsCalls(b) == Cardinality({i \in 1..Len(ChainOf(b)) : ChainOf(b)[i].op = "attrs"})

\* C16: a binder has the attrs operation exactly when no attrs call is among the calls
\* that produced it, whatever transientProps and withChildren calls came before or
\* after; so no chain contains attrs twice.
C16_AttrsOncePerChain ==
    \A b \in Binders :
        /\ templates[b].hasAttrsMethod <=> (AttrsCalls(b) = 0)
        /\ AttrsCalls(b) <= 1

\* attrs, then transientProps, then withChildren: the last binder has no attrs operation
C16_Witness ==
    \E b \in Binders :
        /\ Len(ChainOf(b)) = 4
        /\ ChainOf(b)[2].op = "attrs"
        /\ ChainOf(b)[3].op = "transientProps"
        /\ ChainOf(b)[4].op = "withChildren"
        /\ ~templates[b].hasAttrsMethod
        /\ templates[origin[origin[origin[b].from].from].from].hasAttrsMethod

-----------------------------------------------------------------------------
(* C17 *)

\* fragment, value, fragment, ..., fragment: the pieces of a template in order
Pieces(tpl) ==
    [i \in 1..(2 * Len(tpl.strings) - 1) |->
        IF i % 2 = 1 THEN tpl.strings[(i + 1) \div 2] ELSE StringOf(tpl.values[i \div 2])]

\* C17: a component made from a literal template holds, from its construction on, the
\* fragments concatenated in order with the interpolated values between them, and every
\* render of it composes that string as the base class, whatever its props are.
C17_TemplateClassFixed ==
    /\ \A id \in 1..Len(components) :
          ~components[id].isClassFn =>
              components[id].tplClassName = Str(JoinWith(Pieces(components[id].stringsOrFn), ""))
    /\ \A f \in Frames :
          Literal(f) =>
              /\ Len(f.classFnArgs) = 0
              /\ f.composeArgs[1][1] =
                    Str(JoinWith(Pieces(components[f.component].stringsOrFn), ""))

\* the component of `${"p-4"} bg-white` rendered with $active among its props
C17_Witness ==
    \E f \in Frames :
        /\ components[f.component].stringsOrFn = InterpolatedTpl
        /\ K_active \in DOMAIN f.p
        /\ K_className \in DOMAIN f.p
        /\ f.composeArgs[1][1] = Str("p-4 bg-white")

-----------------------------------------------------------------------------
(* C18 *)

\* the base component of component id
Base(id) == components[id].Component

\* a string property of a host component that is set and not empty
Named(v) == v.t = "string" /\ v.s # ""

\* C18: the displayName of a produced component is twc(N): N is the displayName of its
\* base component when that has one (for a produced component as base, its twc(...)
\* name), else the base's function name when that is not empty, else Component.  A
\* displayName that is the empty string counts as none.
C18_DisplayName ==
    \A id \in 1..Len(components) :
        LET N == IF Base(id).t = "twc" THEN components[Base(id).id].displayName
                 ELSE IF Named(Base(id).displayName) THEN Base(id).displayName.s
                 ELSE IF Named(Base(id).name) THEN Base(id).name.s
                 ELSE "Component"
        IN  components[id].displayName = "twc(" \o N \o ")"

\* a rendered component whose base is the component made from a host with both a
\* displayName and a function name
C18_Witness ==
    \E id \in 1..Len(components) :
        /\ \E f \in Frames : f.component = id
        /\ Base(id).t = "twc"
        /\ Base(Base(id).id) = LabelledComponent
        /\ components[Base(id).id].displayName = "twc(Shown)"
        /\ components[id].displayName = "twc(twc(Shown))"

-----------------------------------------------------------------------------
(* C19 *)

\* the template text of the component a frame rendered
TemplateOf(f) == Str(cacheKey(components[f.component].stringsOrFn))

\* the first render was of a component whose base is a produced component, and that
\* base has been rendered after it
Nested ==
    /\ Len(rendered) = 2
    /\ Base(rendered[1].component) = Wrapped(rendered[2].component)
    /\ Literal(rendered[1])
    /\ Literal(rendered[2])

\* C19: for W1 = wrap(Base)`a` and W2 = wrap(W1)`b`, rendering W2 with className c
\* renders W1 with compose(b, c) and gives Base the className compose(a, compose(b, c));
\* under clsx that is a, then b, then c, joined by spaces.
C19_WrappedComposesInnerFirst ==
    Nested =>
        LET a == TemplateOf(rendered[2])
            b == TemplateOf(rendered[1])
            c == Get(rendered[1].p, K_className)
        IN  /\ rendered[2].p[K_className] = Compose(twc.compose, b, c)
            /\ rendered[2].emit.type = Base(rendered[2].component)
            /\ rendered[2].emit.type.t = "host"
            /\ rendered[2].emit.props[K_className]
                  = Compose(twc.compose, a, Compose(twc.compose, b, c))
            /\ (twc.compose = ClsxFn /\ a.s # "" /\ b.s # "" /\ PlainClassName(rendered[1])) =>
                  rendered[2].emit.props[K_className]
                      = Str(SpaceJoined(a.s \o " " \o b.s, c))

\* the test suite's BaseButton and PrimaryButton, rendered with className "shadow"
C19_Witness ==
    /\ Nested
    /\ twc.compose = ClsxFn
    /\ TemplateOf(rendered[2]) = Str("py-2 px-4 rounded")
    /\ TemplateOf(rendered[1]) = Str("bg-blue-500 text-white")
    /\ Get(rendered[1].p, K_className) = Str("shadow")
    /\ rendered[2].emit.props[K_className]
          = Str("py-2 px-4 rounded bg-blue-500 text-white shadow")

-----------------------------------------------------------------------------
(* C20 *)

\* C20: in every render, whatever the attrs resolve to, the className of the element
\* rendered for the base component is the final class name, the composition of the base
\* class and the incoming className.
C20_ClassNameIsFinalClassName ==
    \A f \in Frames : f.emit.props[K_className] = f.finalClassName

-----------------------------------------------------------------------------
(* C21 *)

\* the components binder b has created from literal templates
LiteralComponents(b) ==
    {Cache(b)[k] : k \in {k \in DOMAIN Cache(b) : ~components[Cache(b)[k]].isClassFn}}

\* the text of a literal template: its fragments with the values written between them
TextOf(tpl) == JoinWith(Pieces(tpl), "")

\* C21 as stated: the cache key of a literal template depends on its fragments only,
\* so one binder has at most one component per sequence of fragments, whatever the
\* interpolated values were.
C21_KeyIgnoresValues ==
    \A b \in Binders :
        \A id1, id2 \in LiteralComponents(b) :
            components[id1].stringsOrFn.strings = components[id2].stringsOrFn.strings
                => id1 = id2

\* C21 amended: the cache key of a literal template is its text, the fragments with the
\* interpolated values written between them.  On one binder, literal templates with the
\* same fragments and values of different text get different components, and literal
\* templates of the same text get the same component even when their fragments differ.
C21_KeyIsTextWithValues ==
    /\ \A b \in Binders :
          /\ \A k \in DOMAIN Cache(b) :
                Cache(b)[k] \in LiteralComponents(b)
                    => k = TextOf(components[Cache(b)[k]].stringsOrFn)
          /\ \A id1, id2 \in LiteralComponents(b) :
                (id1 = id2) <=>
                    (TextOf(components[id1].stringsOrFn) = TextOf(components[id2].stringsOrFn))
    /\ (ret # None /\ ret.stringsOrFn.t = "template"
            /\ ~components[ret.component].isClassFn)
          => TextOf(components[ret.component].stringsOrFn) = TextOf(ret.stringsOrFn)

\* ${"p-4"} bg-white and ${"m-2"} bg-white have made two components, and the template
\* p-4 bg-white in one fragment was answered with the first of them
C21_Witness ==
    /\ \E id1, id2 \in LiteralComponents(1) :
          /\ components[id1].stringsOrFn = InterpolatedTpl
          /\ components[id2].stringsOrFn = OtherValueTpl
          /\ id1 # id2
    /\ ret # None
    /\ ret.stringsOrFn = JoinedTpl
    /\ components[ret.component].stringsOrFn = InterpolatedTpl

-----------------------------------------------------------------------------
(* C22 *)

\* C22: an invocation with a class function is keyed by the function's source text: if
\* the binder has an entry for that text, the invocation returns that entry's component
\* and creates nothing, even when the function is another value (other closed-over
\* values); else the component created holds the function given.  Every render of a
\* component made from a class function calls the function the component holds, the
\* one of the first invocation, with the props of the render.
C22_FunctionKeyedBySource ==
    [][/\ (ret' # None /\ IsFunction(ret'.stringsOrFn)) =>
            LET b == ret'.template
                k == ret'.stringsOrFn.src
            IN  /\ k \in DOMAIN templates'[b].componentCache
                /\ ret'.component = templates'[b].componentCache[k]
                /\ IF k \in DOMAIN Cache(b)
                   THEN ret'.component = Cache(b)[k] /\ components' = components
                   ELSE components'[ret'.component].stringsOrFn = ret'.stringsOrFn
       /\ \A i \in 1..Len(rendered') :
            components'[rendered'[i].component].isClassFn =>
                /\ rendered'[i].classFnArgs = <<rendered'[i].p>>
                /\ rendered'[i].composeArgs[1][1] =
                      CallClassFn(components'[rendered'[i].component].stringsOrFn,
                                  rendered'[i].p)]_vars

\* the binder was invoked with () => base where base is "p-4" and then where base is
\* "m-2": the second invocation returned the first component, which renders with "p-4"
C22_Witness ==
    /\ ret # None
    /\ ret.stringsOrFn = BaseClassFn(Str("m-2"))
    /\ components[ret.component].stringsOrFn = BaseClassFn(Str("p-4"))
    /\ \E f \in Frames :
          /\ f.component = ret.component
          /\ f.composeArgs[1][1] = Str("p-4")

-----------------------------------------------------------------------------
(* C23 *)

\* the step was an invocation of binder b with a class input of key k
Invoked(b, k) ==
    /\ ret' # None
    /\ ret'.template = b
    /\ cacheKey(ret'.stringsOrFn) = k
    /\ rendered' = rendered
    /\ element' = element

\* C23: a step never removes or replaces a cache entry; an invocation with key k leaves
\* the cache with the entries it had and one for k, and returns that entry's component,
\* which for a key requested before is the component of the first request; making and
\* rendering elements leaves every cache as it was.
C23_CacheOnlyGrows ==
    [][\A b \in Binders :
        /\ \A k \in DOMAIN Cache(b) :
              /\ k \in DOMAIN templates'[b].componentCache
              /\ templates'[b].componentCache[k] = Cache(b)[k]
        /\ \A k \in DOMAIN templates'[b].componentCache :
              (k \notin DOMAIN Cache(b)) =>
                  /\ Invoked(b, k)
                  /\ DOMAIN templates'[b].componentCache = (DOMAIN Cache(b)) \cup {k}
                  /\ templates'[b].componentCache[k] = Len(components')
                  /\ Len(components') = Len(components) + 1
        /\ (ret' # ret /\ ret'.template = b) =>
              ret'.component = templates'[b].componentCache[cacheKey(ret'.stringsOrFn)]
        /\ (rendered' # rendered \/ element' # element) => templates' = templates]_vars

\* three keys have been requested, the first one again after the others, and its
\* component has been rendered
C23_Witness ==
    /\ Cardinality(DOMAIN Cache(1)) = 3
    /\ ret # None
    /\ ret.component = 1
    /\ \E f \in Frames : f.component = 1

-----------------------------------------------------------------------------
(* C24 *)

\* the components in the cache of binder b
Cached(b) == {Cache(b)[k] : k \in DOMAIN Cache(b)}

\* C24: no component is in the caches of two binders, whether one was derived from the
\* other by a modifier or both come from wrap calls; a component in a binder's cache,
\* and so every component the binder returns, has that binder's base component, attrs,
\* forwarding predicate and children renderer.
C24_CachePerBinder ==
    /\ \A b1, b2 \in Binders : b1 # b2 => Cached(b1) \cap Cached(b2) = {}
    /\ \A b \in Binders :
          \A id \in Cached(b) :
              /\ components[id].Component = templates[b].Component
              /\ components[id].attrs = templates[b].attrs
              /\ components[id].shouldForwardProp = templates[b].shouldForwardProp
              /\ components[id].childrenRenderer = templates[b].childrenRenderer
    /\ ret # None => ret.component \in Cached(ret.template)

\* a binder and the binder a modifier derived from it were invoked with the same class
\* input and hold different components
C24_Witness ==
    \E b \in Binders :
        /\ origin[b].op # "wrap"
        /\ \E k \in (DOMAIN Cache(b)) \cap (DOMAIN Cache(origin[b].from)) :
              Cache(b)[k] # Cache(origin[b].from)[k]

-----------------------------------------------------------------------------
(* C29 *)

\* C29: a literal-template invocation returns a component whose base class name is the
\* template's text, and a class-function invocation a component made from a class
\* function, whatever the binder was invoked with before.
C29_ShapesNeverShareEntry ==
    ret # None =>
        IF ret.stringsOrFn.t = "template"
        THEN /\ ~components[ret.component].isClassFn
             /\ components[ret.component].tplClassName = Str(TextOf(ret.stringsOrFn))
        ELSE components[ret.component].isClassFn

-----------------------------------------------------------------------------
(* C25 *)

\* C25: a render writes to none of the caller's objects: after it the incoming props
\* and the resolved attrs have the keys and values they had, no key of a style object
\* on either side was written, and the static attrs the component holds are the same
\* for the next render.
C25_RenderWritesNoCallerValue ==
    [][(rendered' # rendered /\ rendered' # <<>>) =>
        LET f == rendered'[Len(rendered')] IN
        /\ f.after.p = f.p
        /\ f.after.attrs = f.resolvedAttrs
        /\ f.after.styleKeysWritten = {}
        /\ components' = components]_vars

\* a render that merged a style of the static attrs with a style of the props and
\* forwarded the result, the attrs still holding their own style
C25_Witness ==
    \E f \in Frames :
        /\ components[f.component].hasAttrs
        /\ ~components[f.component].isAttrsFunction
        /\ AttrsStyle(f) = Obj("padding" :> 1)
        /\ PropsStyle(f) = Obj("padding" :> 2)
        /\ f.emit.props[K_style] = Obj("padding" :> 2)
        /\ components[f.component].attrs = StyleAttrs(Obj("padding" :> 1))

-----------------------------------------------------------------------------
(* C26: a render emits once or raises the first failure *)

\* the names the forwarding predicate of component c is asked about in a render with
\* props p
Asked(c, p) ==
    DOMAIN Without(p, {K_className, K_children})
        \cup (IF c.hasAttrs THEN DOMAIN ResolvedAttrs(c, p) ELSE {})

\* for the component about to render, the error each caller-supplied function fails
\* with (None when it would not fail), in the order attrs function, forwarding
\* predicate, class function, compose, children renderer
Failing ==
    LET c == components[element.type]
        p == element.props
    IN  <<IF c.attrs = ThrowingAttrsFn THEN Error("attrs") ELSE None,
          IF /\ c.attrs # ThrowingAttrsFn
             /\ c.shouldForwardProp.kind \in {"config", "notFn"}
             /\ c.shouldForwardProp.fn = ThrowingPredicateFn
             /\ K_size \in Asked(c, p)
          THEN Error("predicate") ELSE None,
          IF c.stringsOrFn = ThrowingClassFn THEN Error("class") ELSE None,
          IF twc.compose = ThrowingComposeFn /\ c.stringsOrFn # PressedClassFn
          THEN Error("compose") ELSE None,
          IF c.childrenRenderer = ThrowingRendererFn THEN Error("children") ELSE None>>

FirstOf(errors) ==
    IF \A i \in 1..Len(errors) : errors[i] = None THEN None
    ELSE errors[CHOOSE i \in 1..Len(errors) :
                    errors[i] # None /\ \A j \in 1..(i - 1) : errors[j] = None]

\* C26: a render either returns exactly one element of the base component, or raises
\* the error of the first caller-supplied function to fail in the order attrs function,
\* forwarding predicate, class function, compose (when the base class is not a
\* function), children renderer; when it raises, no element of the base component is
\* returned and no binder's cache changes
C26_EmitsOnceOrRaisesFirst ==
    [][(element # None /\ element' # element) =>
        IF FirstOf(Failing) = None
        THEN /\ raised' = None
             /\ Len(rendered') = Len(rendered) + 1
             /\ SubSeq(rendered', 1, Len(rendered)) = rendered
             /\ rendered'[Len(rendered')].emit.type = components[element.type].Component
        ELSE /\ raised' = FirstOf(Failing)
             /\ rendered' = rendered
             /\ \A b \in 1..Len(templates) :
                    templates'[b].componentCache = templates[b].componentCache]_vars

\* a render raised the predicate's error although the class function, compose and the
\* children renderer of the component fail too
C26_Witness ==
    /\ raised = Error("predicate")
    /\ rendered = <<>>
    /\ twc.compose = ThrowingComposeFn
    /\ \E id \in 1..Len(components) :
            /\ components[id].stringsOrFn = ThrowingClassFn
            /\ components[id].childrenRenderer = ThrowingRendererFn

-----------------------------------------------------------------------------
(* C27: a className function over a base class that is not a function *)

\* the className prop of the render is a function
FunctionClassName(f) == IsFunction(Get(f.p, K_className))

\* C27: when the base class is not a function (a literal template, or a class function
\* that returned no function), a className prop that is a function is called with no
\* interaction state; the one compose call gets it unchanged as second argument, and
\* the final class name is that call's result and not a function: clsx leaves a
\* function out, the test suite's compose joins its source text.  That class name is
\* the className of the element, unless the attrs carry a className of their own.
C27_ClassNameFunctionNotCalled ==
    \A f \in Frames :
        (FunctionClassName(f) /\ ~Deferred(f)) =>
            /\ f.classNamePropArgs = {}
            /\ f.classNameFor = <<>>
            /\ Len(f.composeArgs) = 1
            /\ f.composeArgs[1][2] = Get(f.p, K_className)
            /\ ~IsFunction(f.finalClassName)
            /\ f.finalClassName.t = "string"
            /\ twc.compose = ClsxFn =>
                    f.finalClassName = Str(clsx(<<f.composeArgs[1][1]>>))
            /\ twc.compose = CustomComposeFn =>
                    f.finalClassName =
                        Str(customCompose(<<f.composeArgs[1][1],
                                            Str(Get(f.p, K_className).src)>>))
            /\ K_className \notin DOMAIN f.resolvedAttrs =>
                    f.emit.props[K_className] = f.finalClassName

\* template `bg-white p-4` rendered with a className function under clsx: the element
\* gets the template's classes alone
C27_Witness ==
    \E f \in Frames :
        /\ components[f.component].stringsOrFn = PlainTpl
        /\ Get(f.p, K_className) = PressedClassName
        /\ f.emit.props[K_className] = Str("bg-white p-4")
        /\ f.classNamePropArgs = {}

-----------------------------------------------------------------------------
(* C28: the order of the modifier calls *)

\* the modifier calls that produced the binder of the component of render f, one call
\* of each kind at most
ModifierCalls(f) == Tail(ChainOf(BinderOf(f.component)))
OneOfEach(f) ==
    \A i, j \in 1..Len(ModifierCalls(f)) :
        ModifierCalls(f)[i].op = ModifierCalls(f)[j].op => i = j

\* the binder the calls give when made in the order q, from a new wrap of the same
\* base component
RECURSIVE Reordered(_, _, _)
Reordered(template, calls, q) ==
    IF Len(q) = 0 THEN template
    ELSE Reordered(ApplyModifier(template, calls[Head(q)]), calls, Tail(q))

Reorderings(n) == {q \in [1..n -> 1..n] : \A i, j \in 1..n : q[i] = q[j] => i = j}

\* what the base component is given by the component that binder makes from the class
\* input of render f, rendered with the props of render f
EmitReordered(f, q) ==
    Emit(twc.compose,
         ForwardedComponent(
            Reordered(wrap(twc, ChainOf(BinderOf(f.component))[1].arg), ModifierCalls(f), q),
            components[f.component].stringsOrFn,
            components),
         f.p, Undef)

\* C28: the order of the attrs, transientProps and withChildren calls does not matter:
\* made in any other order, one call of each kind at most, they give a binder whose
\* component, from the same class input and rendered with the same props, gives the
\* base component the same className, the same forwarded props and the same children
C28_ModifierOrderIrrelevant ==
    \A f \in Frames :
        OneOfEach(f) =>
            \A q \in Reorderings(Len(ModifierCalls(f))) :
                /\ EmitReordered(f, q).type = f.emit.type
                /\ EmitReordered(f, q).props = f.emit.props

\* a component whose binder came from withChildren, then attrs, then transientProps,
\* rendered with children and a prop the transient list names
C28_Witness ==
    \E f \in Frames :
        /\ Len(ModifierCalls(f)) = 3
        /\ ModifierCalls(f)[1].op = "withChildren"
        /\ ModifierCalls(f)[2].op = "attrs"
        /\ ModifierCalls(f)[3].op = "transientProps"
        /\ K_size \in DOMAIN f.p
        /\ K_size \notin DOMAIN f.emit.props
        /\ K_placeholder \in DOMAIN f.emit.props
        /\ f.emit.props[K_children] = Elem("Text", Str("Content"))

-----------------------------------------------------------------------------
(* C30: what a wrapped component sees of the props of its wrapper *)

\* render i was of a component W2 whose base is the produced component W1, and render
\* i + 1 is the render of W1 it led to
Wrapping(i) ==
    /\ i + 1 <= Len(rendered)
    /\ Base(rendered[i].component) = Wrapped(rendered[i + 1].component)

\* the incoming properties of render f that the forwarding predicate of its component
\* rejects (className and children are not put to the predicate)
Rejected(f) == {n \in Rest(f) : ~ShouldForward(Predicate(f), n)}

\* the property mappings the class function and the attrs function of the component of
\* render f were called with
Received(f) ==
    {f.classFnArgs[i] : i \in 1..Len(f.classFnArgs)}
        \cup {f.attrsFnArgs[i] : i \in 1..Len(f.attrsFnArgs)}

\* C30: when W2 = wrap(W1)(...) is rendered, no incoming property that W2's forwarding
\* predicate rejects is in the mapping W1's class function and W1's attrs function are
\* called with; that mapping has W2's forwarded properties, W2's final children and a
\* className, which is W2's final class name unless W2's attrs carry a className
C30_RejectedPropsHiddenFromInner ==
    \A i \in 1..Len(rendered) :
        Wrapping(i) =>
            LET W2 == rendered[i]
                W1 == rendered[i + 1]
            IN  /\ \A props \in Received(W1) :
                        /\ props = W1.p
                        /\ \A n \in Rejected(W2) : n \notin DOMAIN props
                /\ DOMAIN W1.p = DOMAIN W2.finalProps \cup {K_className, K_children}
                /\ \A n \in (DOMAIN W2.finalProps) \ {K_className, K_children} :
                        W1.p[n] = W2.finalProps[n]
                /\ W1.p[K_children] = W2.finalChildren
                /\ K_className \notin DOMAIN W2.resolvedAttrs =>
                        W1.p[K_className] = W2.finalClassName

\* W2 under the default rule rendered with $active: the class function and the attrs
\* function of W1 were called, without $active, and answered for its absence
C30_Witness ==
    /\ Wrapping(1)
    /\ K_active \in Rejected(rendered[1])
    /\ Len(rendered[2].classFnArgs) = 1
    /\ Len(rendered[2].attrsFnArgs) = 1
    /\ K_active \notin DOMAIN rendered[2].classFnArgs[1]
    /\ rendered[2].emit.props[K_label] = Str("off")

====
